---------------------------- MODULE Spec2Model ----------------------------
(***************************************************************************)
(* Model of the scheduling and delivery core of skufobot-python:           *)
(*   - scheduler.py       SimpleScheduler (start / stop / daily loop /     *)
(*                        broadcast runs / next-fire-time computation)     *)
(*   - telegram_utils.py  send_gif_message, send_gif_with_retry,           *)
(*                        send_text_message                                *)
(*   - bot.py             SkufBot.shutdown, the /testschedule handler      *)
(*                                                                         *)
(* The specifications share the variables:                                 *)
(*   SpecTime     _get_seconds_until_target_time applied to clock readings *)
(*   SpecSmart    the two clock readings of a cycle of _test_smart_loop    *)
(*   SpecDeliver  one delivery call driven by transport responses          *)
(*   SpecMailing  one broadcast run (run_daily_mailing or                  *)
(*                send_daily_gif_message) on its own                       *)
(*   Spec         the scheduler: start(), stop() and its job tasks         *)
(*   SpecDaily    the daily loop followed against the wall clock           *)
(*   SpecStop     stop() and the tasks it cancels, the sends followed      *)
(*                inside the delivery functions, with fair scheduling      *)
(*   SpecOnDemand send_test_gif, /testschedule and shutdown                *)
(***************************************************************************)
EXTENDS Integers, Sequences, FiniteSets, TLC

VARIABLES
    clock,            \* datetime.now(TIMEZONE): the wall-clock reading
    target_hm,        \* << >>, or the (hour, minute) it was called with
    wait_seconds,     \* << >>, or the value the computation returned
    cycle,            \* the loop cycle the clock is followed for
    delivery,         \* one call of a send function of telegram_utils
    mailing,          \* one broadcast run executed on its own
    is_running,       \* SimpleScheduler.is_running
    _scheduled_tasks, \* SimpleScheduler._scheduled_tasks (list of task ids)
    debug_mode,       \* SimpleScheduler.debug_mode (settings.debug)
    tasks,            \* every asyncio task created so far, by id
    stops,            \* the stop() calls suspended at asyncio.gather
    subscribers,      \* rows of chat_subscriber, in the order SELECT returns
    gifs,             \* file ids of the skuf_gif rows of today's weekday
    calls,            \* the start() and stop() calls made so far, in order
    stop_outcome,     \* how the stop() that ended last ended
    on_demand         \* one call of send_test_gif, a handler or shutdown

vars == << clock, target_hm, wait_seconds, cycle, delivery, mailing, is_running,
           _scheduled_tasks, debug_mode, tasks, stops, subscribers, gifs,
           calls, stop_outcome, on_demand >>

timeVars  == << clock, target_hm, wait_seconds, cycle >>
schedVars == << is_running, _scheduled_tasks, debug_mode, tasks, stops,
                subscribers, gifs, calls, stop_outcome >>

None == "none"

(***************************************************************************)
(* Wall-clock time.  A datetime is the record of the fields Python's       *)
(* datetime holds; day is the proleptic ordinal of the date.  TIMEZONE is  *)
(* Europe/Moscow, a fixed UTC+3 offset without daylight-saving changes, so *)
(* wall-clock arithmetic on two readings of the same zone is exact.        *)
(***************************************************************************)
MaxDay == 1

\* The clock readings and targets the time specification draws from.
ClockHours   == 0 .. 23
ClockMinutes == {0, 29, 30, 31, 59}
ClockSeconds == {0, 59}
ClockMicros  == {0, 1, 999999}
TargetHours   == {0, 8, 23}
TargetMinutes == {0, 30, 59}

DateTimes ==
    [ day : 0 .. MaxDay, hour : ClockHours, minute : ClockMinutes,
      second : ClockSeconds, microsecond : ClockMicros ]

MicrosPerSecond == 1000 * 1000
SecondsPerDay   == 24 * 3600

\* The whole seconds of a datetime since day 0, 00:00:00.
ToSeconds(dt) ==
    (dt.day * 24 + dt.hour) * 3600 + dt.minute * 60 + dt.second

\* a < b and a <= b on datetimes of one zone: by date and time of day,
\* then by microsecond.
Before(a, b) ==
    \/ ToSeconds(a) < ToSeconds(b)
    \/ ToSeconds(a) = ToSeconds(b) /\ a.microsecond < b.microsecond

\* a - b, a timedelta: whole seconds and 0 <= microseconds < 10^6, as
\* Python normalises it (days are folded into the seconds here).
Minus(a, b) ==
    LET s  == ToSeconds(a) - ToSeconds(b)
        us == a.microsecond - b.microsecond
    IN  IF us < 0
        THEN [seconds |-> s - 1, microseconds |-> us + MicrosPerSecond]
        ELSE [seconds |-> s, microseconds |-> us]

\* now.replace(hour=hour, minute=minute, second=0, microsecond=0)
Replace(dt, hour, minute) ==
    [dt EXCEPT !.hour = hour, !.minute = minute, !.second = 0,
               !.microsecond = 0]

\* target += timedelta(days=1)
AddOneDay(dt) == [dt EXCEPT !.day = @ + 1]

\* The comparison with the boundary case lost (target < now).
TargetPassed_Strict(target, now) == Before(target, now)

\* target <= now, the branch at scheduler.py:344
TargetPassed(target, now) == ~Before(now, target)

\* The target instant _get_seconds_until_target_time settles on.
NextTarget(now, hour, minute) ==
    LET target == Replace(now, hour, minute)
    IN  IF TargetPassed(target, now) THEN AddOneDay(target) ELSE target

\* (target - now).total_seconds(): the float (seconds * 10^6 +
\* microseconds) / 10^6.  The model keeps the timedelta it is computed
\* from; below 2^53 microseconds the float determines it uniquely.
_get_seconds_until_target_time(now, hour, minute) ==
    Minus(NextTarget(now, hour, minute), now)

\* now + timedelta(minutes=1)
PlusOneMinute(dt) ==
    CASE dt.minute < 59 -> [dt EXCEPT !.minute = @ + 1]
      [] dt.hour < 23   -> [dt EXCEPT !.minute = 0, !.hour = @ + 1]
      [] OTHER          -> [dt EXCEPT !.minute = 0, !.hour = 0, !.day = @ + 1]

\* The wait of a cycle that adds a fixed 24 hours to the clock reading.
CycleWait_Offset(now) == [seconds |-> SecondsPerDay, microseconds |-> 0]

\* wait_seconds = self._get_seconds_until_target_time(hour=8, minute=30)
\* (scheduler.py:237)
CycleWait(now) == _get_seconds_until_target_time(now, 8, 30)

\* The instant now + wait, in whole seconds since day 0 and microseconds.
WakeInstant(now, wait) ==
    LET us == now.microsecond + wait.microseconds
    IN  [ seconds |-> ToSeconds(now) + wait.seconds
                        + (IF us >= MicrosPerSecond THEN 1 ELSE 0),
          microseconds |-> us % MicrosPerSecond ]

\* await asyncio.sleep(wait) returns when the clock reads dt: not before
\* the wait is over, and as late after it as the event loop gets to it.
SleepIsOver(dt, now, wait) ==
    LET at == WakeInstant(now, wait)
    IN  \/ ToSeconds(dt) > at.seconds
        \/ ToSeconds(dt) = at.seconds /\ dt.microsecond >= at.microseconds

\* A cycle of a loop, followed against the clock: whose it is (loop and
\* task), the clock reading it started with (now: << >> or one datetime),
\* and fired: the reading at which the daily action was started last.
IdleCycle ==
    [ loop |-> None, task |-> 0, now |-> << >>, fired |-> << >> ]

(***************************************************************************)
(* Delivery: send_gif_message and send_gif_with_retry.                     *)
(* A transport response is what one await bot.send_animation(...) does:    *)
(* it returns, or raises one of the telegram.error exceptions.             *)
(***************************************************************************)
MaxRetries == 3

\* e.retry_after values a RetryAfter may carry.
RetryAfterWaits == {1, 7}

Resp(kind) == [kind |-> kind, retry_after |-> 0]

Responses ==
    { Resp(k) : k \in {"ok", "TimedOut", "NetworkError", "BadRequest",
                       "BadRequest_chat_not_found", "Forbidden",
                       "Exception"} }
    \cup { [kind |-> "RetryAfter", retry_after |-> w] : w \in RetryAfterWaits }

DeliveryFns == {"send_gif_message", "send_gif_with_retry"}

\* The classes of the Responses that derive from telegram.error.TelegramError.
TelegramErrors ==
    {"TimedOut", "NetworkError", "BadRequest", "BadRequest_chat_not_found",
     "Forbidden", "RetryAfter"}

IdleDelivery ==
    [ fn |-> None, max_retries |-> 0, attempt |-> 0, pc |-> "idle",
      calls |-> << >>, sleeps |-> << >>, result |-> None ]

\* return <value>
Return(d, value) == [d EXCEPT !.pc = "returned", !.result = value]

\* await asyncio.sleep(seconds): the call suspends until the timer fires
Sleep(d, seconds) ==
    [d EXCEPT !.pc = "sleep", !.sleeps = Append(@, seconds)]

\* for attempt in range(max_retries): the loop test with d.attempt the
\* next value of the range.  Falling out of the loop, send_gif_message
\* reaches its final return False and send_gif_with_retry the end of its
\* body (None).
ForAttempt(d) ==
    IF d.attempt < d.max_retries
    THEN [d EXCEPT !.pc = "call"]
    ELSE Return(d, IF d.fn = "send_gif_message" THEN "False" ELSE "None")

\* The call itself.
Deliver(fn, max_retries) ==
    ForAttempt([IdleDelivery EXCEPT !.fn = fn, !.max_retries = max_retries])

\* send_text_message(bot, chat_id, text): it has no max_retries and no
\* loop; its body starts with the await of bot.send_message.
DeliverText ==
    [IdleDelivery EXCEPT !.fn = "send_text_message", !.pc = "call"]

\* A retryable failure answered by giving up at once.
OnTimedOut_NoRetry(d) == Return(d, "False")

\* except TimedOut (telegram_utils.py:76-84)
OnTimedOut(d) ==
    IF d.attempt < d.max_retries - 1
    THEN Sleep(d, (d.attempt + 1) * 5)
    ELSE Return(d, "False")

\* A rate-limit answer that gives the loop slot it used back.
OnRetryAfter_Uncounted(d, r) ==
    Sleep([d EXCEPT !.attempt = @ - 1], r.retry_after)

\* except RetryAfter (telegram_utils.py:86-89)
OnRetryAfter(d, r) == Sleep(d, r.retry_after)

\* A terminal failure answered by a pause and another attempt.
OnBadRequest_Retry(d) == Sleep(d, 5)

\* except BadRequest (telegram_utils.py:91-98): both branches only log
OnBadRequest(d) == Return(d, "False")

\* except NetworkError (telegram_utils.py:100-105)
OnNetworkError(d) ==
    IF d.attempt < d.max_retries - 1
    THEN Sleep(d, 5)
    ELSE Return(d, "False")

\* An unclassified error left to propagate to the caller.
OnException_Raise(d) == [d EXCEPT !.pc = "raised"]

\* except Exception (telegram_utils.py:107-109); Forbidden is a
\* TelegramError outside the NetworkError family and lands here.
OnException(d) == Return(d, "False")

\* The try statement of send_gif_message, by the class of what was raised:
\* TimedOut and BadRequest are NetworkErrors and are matched before it.
send_gif_message(d, r) ==
    CASE r.kind = "ok"           -> Return(d, "True")
      [] r.kind = "TimedOut"     -> OnTimedOut(d)
      [] r.kind = "RetryAfter"   -> OnRetryAfter(d, r)
      [] r.kind \in {"BadRequest", "BadRequest_chat_not_found"}
                                 -> OnBadRequest(d)
      [] r.kind = "NetworkError" -> OnNetworkError(d)
      [] OTHER                   -> OnException(d)

\* except (TimedOut, NetworkError) (telegram_utils.py:125-131); BadRequest
\* is a NetworkError too, so it is matched by this clause.
OnNetworkFamily(d) ==
    IF d.attempt = d.max_retries - 1
    THEN Return(d, "False")
    ELSE Sleep(d, (d.attempt + 1) * 5)

\* The try statement of send_gif_with_retry.
send_gif_with_retry(d, r) ==
    CASE r.kind = "ok" -> Return(d, "True")
      [] r.kind \in {"TimedOut", "NetworkError", "BadRequest",
                     "BadRequest_chat_not_found"} -> OnNetworkFamily(d)
      [] OTHER -> Return(d, "False")

\* The try statement of send_text_message (telegram_utils.py:37-52): one
\* call, and both except clauses log and return False.
send_text_message(d, r) ==
    CASE r.kind = "ok"              -> Return(d, "True")
      [] r.kind \in TelegramErrors  -> Return(d, "False")
      [] OTHER                      -> OnException(d)

\* bot.send_animation / bot.send_message answers the pending call with r.
TransportAnswers(d, r) ==
    LET called == [d EXCEPT !.calls = Append(@, r)]
    IN  CASE d.fn = "send_gif_message"  -> send_gif_message(called, r)
          [] d.fn = "send_text_message" -> send_text_message(called, r)
          [] OTHER                      -> send_gif_with_retry(called, r)

\* The timer of the pending asyncio.sleep fires: the next loop iteration.
SleepOver(d) == ForAttempt([d EXCEPT !.attempt = @ + 1])

\* CancelledError raised at the pending await: no except clause matches a
\* BaseException, so it leaves the function.
Cancelled(d) == [d EXCEPT !.pc = "cancelled"]

(***************************************************************************)
(* Broadcast runs: run_daily_mailing (the daily job's action) and          *)
(* send_daily_gif_message.  The scheduler imports send_gif and send_text   *)
(* from telegram_utils, which defines send_gif_message and                 *)
(* send_text_message (both return a bool): a send returns True, returns    *)
(* False, or raises, and the scheduler ignores what it returns.            *)
(***************************************************************************)
MaxSubscribers == 2

Chats == 1 .. MaxSubscribers

\* The lists of distinct chat ids (chat_id is the table's key).
RECURSIVE ListsOver(_)
ListsOver(S) ==
    {<< >>} \cup
    UNION { { << c >> \o rest : rest \in ListsOver(S \ {c}) } : c \in S }

SubscriberLists == ListsOver(Chats)

MailingFns == {"run_daily_mailing", "send_daily_gif_message"}

\* SkufGif.file_id of the gifs that are stored for today at one time or
\* another.
FileIds == {"gif_a", "gif_b"}

\* What a send raises: BadRequest, or any other Exception.
SendErrors == {"BadRequest", "Exception"}

\* A run: the function's position, its local variables (gif: whether the
\* local gif is a row, file_id: its gif.file_id), and what it has done so
\* far (the lookups of each table, the sends it started, the pacing
\* sleeps, the log lines, and delivered: how many of its sends returned
\* True).
IdleMailing ==
    [ fn |-> None, pc |-> "idle", gif |-> FALSE, file_id |-> None,
      chat_ids |-> << >>,
      i |-> 0, sent_count |-> 0, failed_count |-> 0, errors_logged |-> 0,
      delivered |-> 0, events |-> << >>, summary |-> None,
      gif_lookups |-> 0, sub_lookups |-> 0 ]

Event(ev, chat_id, item) == [ev |-> ev, chat_id |-> chat_id, item |-> item]

\* logger.info("... Отправлено/Успешно ...") and the return after the loop
Summarise(r) == [r EXCEPT !.pc = "returned", !.summary = "counts"]

\* A loop that reads the table again for each recipient.
ForChat_LiveRecipients(r) ==
    IF r.i <= Len(subscribers)
    THEN [r EXCEPT !.pc = "send",
                   !.events = Append(@, Event("send", subscribers[r.i],
                                  IF r.gif THEN r.file_id ELSE "text"))]
    ELSE Summarise(r)

\* A loop body that takes whatever gif is stored when the recipient's
\* turn comes.
ForChat_LiveItem(r) ==
    IF r.i <= Len(r.chat_ids)
    THEN [r EXCEPT !.pc = "send",
                   !.events = Append(@, Event("send", r.chat_ids[r.i],
                                  IF gifs # {}
                                  THEN CHOOSE g \in gifs : TRUE
                                  ELSE "text"))]
    ELSE Summarise(r)

\* A loop body without its else branch: with no gif nothing is sent.
ForChat_NoFallback(r) ==
    IF r.gif /\ r.i <= Len(r.chat_ids)
    THEN [r EXCEPT !.pc = "send",
                   !.events = Append(@, Event("send", r.chat_ids[r.i],
                                                   r.file_id))]
    ELSE Summarise(r)

\* for chat_id in subscribers: with r.i the position of the next chat.
\* The body starts with the send (send_gif when a gif was found, send_text
\* otherwise), at which the run suspends.
ForChat(r) ==
    IF r.i <= Len(r.chat_ids)
    THEN [r EXCEPT !.pc = "send",
                   !.events = Append(@, Event("send", r.chat_ids[r.i],
                                  IF r.gif THEN r.file_id ELSE "text"))]
    ELSE Summarise(r)

\* The first statement of the run: the first awaited lookup.
StartRun(fn) ==
    [IdleMailing EXCEPT !.fn = fn,
        !.pc = IF fn = "run_daily_mailing" THEN "find_gif" ELSE "get_subs"]

\* What SELECT ... ORDER BY RANDOM() LIMIT 1 gives find_random_gif_by_day:
\* one of the rows, or None when there is none or the query failed
\* (repositories.py:103-126).
GifAnswers == gifs \cup {None}

\* gif = await gif_service.find_random_gif_by_day(...) returned answer
\* (scheduler.py:80, 117): a row's file id, or None
GifFetched(r, answer) ==
    LET looked == [r EXCEPT !.gif = (answer # None), !.file_id = answer,
                            !.gif_lookups = @ + 1]
    IN  IF r.fn = "run_daily_mailing"
        THEN [looked EXCEPT !.pc = "get_subs"]
        ELSE ForChat([looked EXCEPT !.i = 1])

\* subscribers = await subscriber_service.get_all_subscriber_ids() returned
\* (scheduler.py:81-87, 114)
SubscribersFetched(r, ids) ==
    LET read == [r EXCEPT !.chat_ids = ids, !.sub_lookups = @ + 1]
    IN  IF r.fn = "run_daily_mailing"
        THEN IF ids = << >>
             THEN [read EXCEPT !.pc = "returned",
                               !.summary = "no_subscribers"]
             ELSE ForChat([read EXCEPT !.i = 1])
        ELSE [read EXCEPT !.pc = "find_gif"]

\* A lookup raised: run_daily_mailing has no handler around its lookups;
\* send_daily_gif_message logs it in its outer except and returns.
FetchRaised(r) ==
    LET tried == CASE r.pc = "find_gif" -> [r EXCEPT !.gif_lookups = @ + 1]
                   [] r.pc = "get_subs" -> [r EXCEPT !.sub_lookups = @ + 1]
                   [] OTHER             -> r
    IN  IF r.fn = "run_daily_mailing"
        THEN [tried EXCEPT !.pc = "raised"]
        ELSE [tried EXCEPT !.pc = "returned", !.summary = "error"]

\* What the send reported is told by its bool result (True: delivered).
Reported(r, ok) ==
    [r EXCEPT !.delivered = IF ok THEN @ + 1 ELSE @]

\* The send returned ok, which the await discards: success_count += 1 and
\* the pacing sleep (scheduler.py:99-101), or sent_count += 1
\* (scheduler.py:129).
SendReturned(r, ok) ==
    IF r.fn = "run_daily_mailing"
    THEN [Reported(r, ok) EXCEPT !.sent_count = @ + 1, !.pc = "pace",
                   !.events = Append(@, Event("pace", 0, None))]
    ELSE ForChat([Reported(r, ok) EXCEPT !.sent_count = @ + 1, !.i = @ + 1])

\* A raising send that goes uncounted.
SendRaised_Uncounted(r, exc) == ForChat([r EXCEPT !.i = @ + 1])

\* A raising send that leaves the loop.
SendRaised_Abort(r, exc) == FetchRaised(r)

\* The handlers of one recipient's try statement.
OnSendError(r, exc) ==
    IF r.fn = "run_daily_mailing"
    THEN \* except Exception: logger.error (scheduler.py:103-104)
         ForChat([r EXCEPT !.errors_logged = @ + 1, !.i = @ + 1])
    ELSE \* except BadRequest / except Exception: both log and count
         \* (scheduler.py:131-139)
         ForChat([r EXCEPT !.failed_count = @ + 1, !.errors_logged = @ + 1,
                           !.i = @ + 1])

\* The send raised exc.
SendRaised(r, exc) == OnSendError(r, exc)

\* await asyncio.sleep(0.05) returned: the next chat
PaceOver(r) == ForChat([r EXCEPT !.i = @ + 1])

\* CancelledError raised at the pending await.  It is no Exception, so
\* neither the per-recipient handlers nor the outer one catch it.
RunCancelled(r) == [r EXCEPT !.pc = "cancelled"]

\* The chat ids of the sends a run started, in order.
Attempted(r) ==
    LET sends == SelectSeq(r.events, LAMBDA e : e.ev = "send")
    IN  [ k \in 1 .. Len(sends) |-> sends[k].chat_id ]

(***************************************************************************)
(* The scheduler's job tasks.  A task is the asyncio task of one loop      *)
(* coroutine: its position (pc), whether cancel() was called on it, and,   *)
(* for the daily loop, the broadcast run it is executing or executed last. *)
(*   pc: "new"       created by asyncio.create_task, not yet run           *)
(*       "sleep"     at await asyncio.sleep(wait_seconds)                  *)
(*       "mailing"   daily loop, inside run_daily_mailing (see run.pc)     *)
(*       "get_subs", "send_test_gif"                                       *)
(*                   smart loop, at the awaits of its action               *)
(*       "recover"   at the sleep of the except Exception handler          *)
(*       "returned"  the coroutine returned                                *)
(*       "cancelled" CancelledError left the coroutine                     *)
(***************************************************************************)
MaxCalls == 3

NewTask(kind) ==
    [ kind |-> kind, pc |-> "new", cancel_requested |-> FALSE,
      run |-> IdleMailing ]

Done(task) == task.pc \in {"returned", "cancelled"}

TaskIds == 1 .. Len(tasks)

\* A loop that runs its action once: "if" where the code has "while".
LoopTest_Once(task, running, debug) ==
    IF running /\ (task.kind = "daily" \/ debug) /\ task.run.pc = "idle"
    THEN [task EXCEPT !.pc = "sleep"]
    ELSE [task EXCEPT !.pc = "returned"]

\* while self.is_running [and self.debug_mode]: the loop test, followed by
\* the computation of the wait and the sleep it leads to.
LoopTest(task, running, debug) ==
    IF running /\ (task.kind = "daily" \/ debug)
    THEN [task EXCEPT !.pc = "sleep"]
    ELSE [task EXCEPT !.pc = "returned"]

\* An error of the action that ends the loop.
Recover_Teardown(task) == [task EXCEPT !.pc = "returned"]

\* The except Exception handler of a loop: log and sleep (60 s / 10 s).
Recover(task) == [task EXCEPT !.pc = "recover"]

\* The daily loop after a step of its run: run_daily_mailing returned
\* (next cycle), raised (except Exception: log, sleep 60), or goes on.
AfterRunStep(task, run, running, debug) ==
    LET t == [task EXCEPT !.run = run]
    IN  CASE run.pc = "returned" -> LoopTest(t, running, debug)
          [] run.pc = "raised"   -> Recover(t)
          [] OTHER               -> t

\* asyncio.sleep(wait_seconds) returned in the daily loop
\* (scheduler.py:245-249): the action runs only if self.is_running.
DailyWake(task, running, debug) ==
    IF running
    THEN [task EXCEPT !.pc = "mailing", !.run = StartRun("run_daily_mailing")]
    ELSE LoopTest(task, running, debug)

\* A task that catches the CancelledError and goes on from where it was.
DeliverCancel_Swallowed(task) == [task EXCEPT !.cancel_requested = FALSE]

\* CancelledError delivered to a suspended (or not yet run) task.  Inside
\* the try statement of a loop it is caught and breaks the loop; a task
\* that never ran, or that sleeps in the except Exception handler, is left
\* by it.
DeliverCancel(task) ==
    CASE task.pc \in {"new", "recover"} -> [task EXCEPT !.pc = "cancelled"]
      [] task.pc = "mailing" ->
            [task EXCEPT !.pc = "returned", !.run = RunCancelled(@)]
      [] OTHER -> [task EXCEPT !.pc = "returned"]

\* task.cancel(): a request, delivered when the task runs next; without
\* effect on a task that is done.
Cancel(task) ==
    IF Done(task) THEN task ELSE [task EXCEPT !.cancel_requested = TRUE]

\* for task in self._scheduled_tasks: task.cancel()
CancelAll(ts, ids) ==
    [ t \in DOMAIN ts |->
        IF \E k \in 1 .. Len(ids) : ids[k] = t THEN Cancel(ts[t]) ELSE ts[t] ]

Range(seq) == { seq[k] : k \in 1 .. Len(seq) }

\* asyncio.gather(*tasks, return_exceptions=...): whether exceptions of
\* the awaited tasks are returned as results (scheduler.py:69).
ReturnExceptions_False == FALSE

ReturnExceptions == TRUE

\* What awaiting the gather does once every awaited task is done: with
\* return_exceptions the outcomes are collected; without, the first
\* exception (a task's CancelledError) is raised in the awaiting stop().
GatherOutcome(awaited) ==
    IF ~ReturnExceptions /\ \E t \in awaited : tasks[t].pc = "cancelled"
    THEN "raised"
    ELSE "returned"

(***************************************************************************)
(* The state every specification starts from, part by part.                *)
(***************************************************************************)
(***************************************************************************)
(* Calls made on demand, outside the loops: send_test_gif(chat_id, day)    *)
(* and the /testschedule command handler.  on_demand is one such call: its *)
(* arguments, its position, what the gif lookup gave, the sends it made    *)
(* with what each reported, and what it returned.                          *)
(***************************************************************************)
\* The day numbers send_test_gif is called with: the week, and one number
\* on each side of it.
Days == 0 .. 8

IdleOnDemand ==
    [ fn |-> None, chat_id |-> 0, day |-> 0, pc |-> "idle", gif |-> None,
      queried |-> FALSE, sends |-> << >>, result |-> None, error |-> None ]

CallSendTestGif(chat_id, day) ==
    [IdleOnDemand EXCEPT !.fn = "send_test_gif", !.chat_id = chat_id,
                         !.day = day, !.pc = "find_gif"]

CallHandleTestSchedule(chat_id) ==
    [IdleOnDemand EXCEPT !.fn = "handle_test_schedule", !.chat_id = chat_id,
                         !.pc = "add_custom_task"]

\* GifService.find_random_gif_by_day(day): a day outside 1..7 is logged
\* and answered None without a query; otherwise the repository's answer,
\* a gif when it finds one (found) and None when not.
find_random_gif_by_day(day, found) ==
    IF day < 1 \/ day > 7
    THEN "absent"
    ELSE IF found THEN "gif" ELSE "absent"

\* gif = await gif_service.find_random_gif_by_day(day) returned
\* (scheduler.py:201-208): the gif, or the "no gif" text, is sent next.
GifLooked(c, found) ==
    LET gif == find_random_gif_by_day(c.day, found)
    IN  [c EXCEPT !.gif = gif,
                  !.queried = ~(c.day < 1 \/ c.day > 7),
                  !.pc = IF gif = "gif" THEN "send_gif" ELSE "send_text"]

\* The lookup raised (no connection): except Exception, which sends the
\* error text (scheduler.py:212-214).
GifLookupRaised(c) ==
    [c EXCEPT !.gif = "raised", !.queried = TRUE, !.pc = "error_text"]

Sent(c, reported) ==
    [c EXCEPT !.sends = Append(@, [item |-> c.pc, reported |-> reported])]

\* A send returned ok, which the await discards: return True after the
\* gif (scheduler.py:204-206), return False after either text
\* (scheduler.py:208-210, 214-215).  The handler returns nothing.
TestSendReturned(c, ok) ==
    [Sent(c, IF ok THEN "True" ELSE "False") EXCEPT
        !.pc = "returned",
        !.result = IF c.fn = "send_test_gif"
                   THEN IF c.pc = "send_gif" THEN "True" ELSE "False"
                   ELSE None]

\* A send raised: in the try it reaches except Exception, in the handler
\* it leaves send_test_gif.
TestSendRaised(c) ==
    [Sent(c, "raised") EXCEPT
        !.pc = IF c.pc = "error_text" THEN "raised" ELSE "error_text"]

\* self.scheduler.add_custom_task(10, test_task) (bot.py:275):
\* SimpleScheduler has no such attribute, the call raises AttributeError,
\* which the handler's except Exception answers with an error text
\* (bot.py:286-289).
AddCustomTaskCalled(c) ==
    [c EXCEPT !.error = "AttributeError", !.pc = "error_text"]

\* SkufBot.shutdown(): up to its first await, the stop of the Telegram
\* application (bot.py:333-345).
CallShutdown ==
    [IdleOnDemand EXCEPT !.fn = "shutdown", !.pc = "stop_application"]

\* What the statement "self.scheduler.stop()" of shutdown (bot.py:349)
\* leaves of the scheduler's flag, task list and tasks: stop is a
\* coroutine function, the call builds a coroutine object that is never
\* awaited, and no statement of stop() runs.
UnawaitedStop(running, managed, ts) == << running, managed, ts >>

TimeIdle ==
    /\ clock = None
    /\ target_hm = << >>
    /\ wait_seconds = << >>
    /\ cycle = IdleCycle

DeliveryIdle == delivery = IdleDelivery

MailingIdle == mailing = IdleMailing

OnDemandIdle == on_demand = IdleOnDemand

\* SimpleScheduler.__init__ (scheduler.py:26-33)
SchedulerConstructed ==
    /\ is_running = FALSE
    /\ _scheduled_tasks = << >>
    /\ tasks = << >>
    /\ stops = << >>
    /\ calls = << >>
    /\ stop_outcome = None

(***************************************************************************)
(* SpecTime: the next-fire-time computation on a clock reading.            *)
(***************************************************************************)
InitTime ==
    /\ clock \in DateTimes
    /\ target_hm = << >>
    /\ wait_seconds = << >>
    /\ cycle = IdleCycle
    /\ DeliveryIdle /\ MailingIdle /\ OnDemandIdle /\ SchedulerConstructed
    /\ debug_mode = FALSE
    /\ subscribers = << >>
    /\ gifs = {}

\* wait_seconds = self._get_seconds_until_target_time(hour, minute)
GetSecondsUntilTargetTime ==
    /\ wait_seconds = << >>
    /\ \E hour \in TargetHours, minute \in TargetMinutes :
         /\ target_hm' = << hour, minute >>
         /\ wait_seconds' =
              << _get_seconds_until_target_time(clock, hour, minute) >>
    /\ UNCHANGED << clock, cycle, delivery, mailing, on_demand, schedVars >>

NextTime == GetSecondsUntilTargetTime

SpecTime == InitTime /\ [][NextTime]_vars

(***************************************************************************)
(* SpecSmart: the wait of one cycle of _test_smart_loop, which reads the   *)
(* clock twice: for the minute it aims at, and again inside                *)
(* _get_seconds_until_target_time.                                         *)
(***************************************************************************)
\* The clock readings followed: around the turn of a minute, of an hour
\* and of the day.
SmartReadings ==
    [ day : 0 .. MaxDay, hour : {0, 23}, minute : {0, 58, 59},
      second : {0, 59}, microsecond : {0, 1, 999999} ]

InitSmart ==
    /\ clock \in SmartReadings
    /\ target_hm = << >>
    /\ wait_seconds = << >>
    /\ cycle = IdleCycle
    /\ DeliveryIdle /\ MailingIdle /\ OnDemandIdle /\ SchedulerConstructed
    /\ debug_mode = TRUE
    /\ subscribers = << >>
    /\ gifs = {}

\* now = datetime.now(TIMEZONE); next_run = now + timedelta(minutes=1);
\* target_hour, target_minute = next_run.hour, next_run.minute
SmartPicksMinute ==
    /\ cycle.loop = None
    /\ cycle' = [cycle EXCEPT !.loop = "smart", !.now = << clock >>]
    /\ target_hm' = << PlusOneMinute(clock).hour, PlusOneMinute(clock).minute >>
    /\ UNCHANGED << clock, wait_seconds,
                    delivery, mailing, on_demand, schedVars >>

\* Time passes between the loop's reading of the clock and the reading
\* inside _get_seconds_until_target_time.
SmartClockAdvances ==
    /\ cycle.loop = "smart"
    /\ wait_seconds = << >>
    /\ \E later \in SmartReadings :
         /\ Before(clock, later)
         /\ clock' = later
    /\ UNCHANGED << target_hm, wait_seconds, cycle,
                    delivery, mailing, on_demand, schedVars >>

\* wait_seconds = self._get_seconds_until_target_time(target_hour,
\* target_minute)
SmartComputesWait ==
    /\ cycle.loop = "smart"
    /\ wait_seconds = << >>
    /\ wait_seconds' =
         << _get_seconds_until_target_time(clock, target_hm[1],
                                           target_hm[2]) >>
    /\ UNCHANGED << clock, target_hm, cycle,
                    delivery, mailing, on_demand, schedVars >>

NextSmart == SmartPicksMinute \/ SmartClockAdvances \/ SmartComputesWait

SpecSmart == InitSmart /\ [][NextSmart]_vars

(***************************************************************************)
(* SpecDeliver: one delivery call and the transport's answers to it.       *)
(***************************************************************************)
InitDeliver ==
    /\ \/ \E fn \in DeliveryFns, k \in 0 .. MaxRetries :
            delivery = Deliver(fn, k)
       \/ delivery = DeliverText
    /\ TimeIdle /\ MailingIdle /\ OnDemandIdle /\ SchedulerConstructed
    /\ debug_mode = FALSE
    /\ subscribers = << >>
    /\ gifs = {}

\* await bot.send_animation(...) / bot.send_message(...) returns or raises
TransportCall ==
    /\ delivery.pc = "call"
    /\ \E r \in Responses : delivery' = TransportAnswers(delivery, r)
    /\ UNCHANGED << timeVars, mailing, on_demand, schedVars >>

\* await asyncio.sleep(...) returns
BackoffOver ==
    /\ delivery.pc = "sleep"
    /\ delivery' = SleepOver(delivery)
    /\ UNCHANGED << timeVars, mailing, on_demand, schedVars >>

\* the task running the call is cancelled while it is suspended
DeliveryCancelled ==
    /\ delivery.pc \in {"call", "sleep"}
    /\ delivery' = Cancelled(delivery)
    /\ UNCHANGED << timeVars, mailing, on_demand, schedVars >>

NextDeliver == TransportCall \/ BackoffOver \/ DeliveryCancelled

SpecDeliver == InitDeliver /\ [][NextDeliver]_vars

(***************************************************************************)
(* SpecMailing: one broadcast run, from its first statement to its end.    *)
(***************************************************************************)
InitMailing ==
    /\ \E fn \in MailingFns : mailing = StartRun(fn)
    /\ subscribers \in SubscriberLists
    /\ gifs \in SUBSET FileIds
    /\ TimeIdle /\ DeliveryIdle /\ OnDemandIdle /\ SchedulerConstructed
    /\ debug_mode = FALSE

\* find_random_gif_by_day returns a gif or None
FindGif ==
    /\ mailing.pc = "find_gif"
    /\ \E answer \in GifAnswers : mailing' = GifFetched(mailing, answer)
    /\ UNCHANGED << timeVars, delivery, on_demand, schedVars >>

\* get_all_subscriber_ids returns the rows, or [] after a failed query
GetSubscribers ==
    /\ mailing.pc = "get_subs"
    /\ \E ids \in {subscribers, << >>} :
         mailing' = SubscribersFetched(mailing, ids)
    /\ UNCHANGED << timeVars, delivery, on_demand, schedVars >>

\* a lookup raises (no connection to the database)
LookupRaises ==
    /\ mailing.pc \in {"find_gif", "get_subs"}
    /\ mailing' = FetchRaised(mailing)
    /\ UNCHANGED << timeVars, delivery, on_demand, schedVars >>

SendReturns ==
    /\ mailing.pc = "send"
    /\ \E ok \in BOOLEAN : mailing' = SendReturned(mailing, ok)
    /\ UNCHANGED << timeVars, delivery, on_demand, schedVars >>

SendRaises ==
    /\ mailing.pc = "send"
    /\ \E exc \in SendErrors : mailing' = SendRaised(mailing, exc)
    /\ UNCHANGED << timeVars, delivery, on_demand, schedVars >>

PacingOver ==
    /\ mailing.pc = "pace"
    /\ mailing' = PaceOver(mailing)
    /\ UNCHANGED << timeVars, delivery, on_demand, schedVars >>

\* the task running the run is cancelled while it is suspended
MailingCancelled ==
    /\ mailing.pc \in {"find_gif", "get_subs", "send", "pace"}
    /\ mailing' = RunCancelled(mailing)
    /\ UNCHANGED << timeVars, delivery, on_demand, schedVars >>

\* The tables change while the run is suspended: a handler of the bot
\* runs on the same event loop.
TablesChange(subs, stored) ==
    /\ subscribers' = subs
    /\ gifs' = stored
    /\ UNCHANGED << is_running, _scheduled_tasks, debug_mode, tasks, stops,
                    calls, stop_outcome,
                    timeVars, delivery, mailing, on_demand >>

\* /start of a chat that is not subscribed: save_new_chat inserts its row
\* (ON CONFLICT DO NOTHING leaves the table alone for one that is).
Subscribe ==
    \E chat_id \in Chats \ Range(subscribers) :
        TablesChange(Append(subscribers, chat_id), gifs)

\* SubscriberService.unsubscribe: delete_by_id removes the chat's row
Unsubscribe ==
    \E chat_id \in Range(subscribers) :
        TablesChange(SelectSeq(subscribers, LAMBDA c : c # chat_id), gifs)

\* GifService.save_gif stores a gif that is not stored yet
UploadGif ==
    \E file_id \in FileIds \ gifs :
        TablesChange(subscribers, gifs \cup {file_id})

\* GifService.delete_gif removes a stored gif
DeleteGif ==
    \E file_id \in gifs : TablesChange(subscribers, gifs \ {file_id})

NextMailing ==
    \/ FindGif \/ GetSubscribers \/ LookupRaises
    \/ SendReturns \/ SendRaises \/ PacingOver \/ MailingCancelled
    \/ Subscribe \/ Unsubscribe \/ UploadGif \/ DeleteGif

SpecMailing == InitMailing /\ [][NextMailing]_vars

(***************************************************************************)
(* Spec: the scheduler.  start() and stop() are called by any coroutine of *)
(* the event loop; start() has no await and runs in one step, stop()       *)
(* suspends at its gather; every task runs from one await to the next.     *)
(***************************************************************************)
\* The subscriber tables the scheduler specification starts from: no
\* subscriber, or one (which one makes no difference to the scheduler).
FewSubscribers == { ids \in SubscriberLists : ids \in { << >>, << 1 >> } }

\* The gif table while the scheduler is followed: one gif for today.
OneGif == {"gif_a"}

\* How many start() and stop() calls are followed: MaxCalls, and two more
\* where there is no debug loop and no subscriber, and the tasks have few
\* states.
CallBound ==
    IF debug_mode \/ subscribers # << >> THEN MaxCalls ELSE MaxCalls + 2

Init ==
    /\ SchedulerConstructed
    /\ debug_mode \in BOOLEAN
    /\ subscribers \in FewSubscribers
    /\ gifs = OneGif
    /\ TimeIdle /\ DeliveryIdle /\ MailingIdle /\ OnDemandIdle

\* The guard without its test.
AlreadyRunning_Never == FALSE

\* if not self.is_running (scheduler.py:37)
AlreadyRunning == is_running

\* The kinds of the tasks start() creates: the daily loop and, in debug
\* mode, the smart test loop (scheduler.py:45-58).
StartedKinds ==
    IF debug_mode THEN << "daily", "smart" >> ELSE << "daily" >>

\* await scheduler.start()
start ==
    /\ Len(calls) < CallBound
    /\ calls' = Append(calls, "start")
    /\ IF AlreadyRunning
       THEN UNCHANGED << is_running, tasks, _scheduled_tasks >>
       ELSE /\ is_running' = TRUE
            /\ tasks' = tasks \o [ k \in 1 .. Len(StartedKinds) |->
                                     NewTask(StartedKinds[k]) ]
            /\ _scheduled_tasks' = _scheduled_tasks \o
                 [ k \in 1 .. Len(StartedKinds) |-> Len(tasks) + k ]
    /\ UNCHANGED << debug_mode, stops, subscribers, gifs, stop_outcome,
                    timeVars, delivery, mailing, on_demand >>

\* self._scheduled_tasks.clear() left out.
ClearedTasks_Kept == _scheduled_tasks

\* self._scheduled_tasks.clear() (scheduler.py:70)
ClearedTasks == << >>

\* await scheduler.stop(), up to its await: the flag, the cancel() calls
\* and the gather.  Gathering nothing is done at once, and the call goes
\* on to its end without suspending.
stop ==
    /\ Len(calls) < CallBound
    /\ calls' = Append(calls, "stop")
    /\ is_running' = FALSE
    /\ tasks' = CancelAll(tasks, _scheduled_tasks)
    /\ IF _scheduled_tasks = << >>
       THEN /\ _scheduled_tasks' = ClearedTasks
            /\ stop_outcome' = "returned"
            /\ UNCHANGED stops
       ELSE /\ stops' = Append(stops, Range(_scheduled_tasks))
            /\ UNCHANGED << _scheduled_tasks, stop_outcome >>
    /\ UNCHANGED << debug_mode, subscribers, gifs,
                    timeVars, delivery, mailing, on_demand >>

\* The gather of a suspended stop() is done: every task it awaits has
\* ended.  stop() clears the list and returns (or the gather raises).
stop_resumes ==
    \E k \in 1 .. Len(stops) :
        /\ \A t \in stops[k] : Done(tasks[t])
        /\ stop_outcome' = GatherOutcome(stops[k])
        /\ _scheduled_tasks' =
             IF GatherOutcome(stops[k]) = "returned"
             THEN ClearedTasks ELSE _scheduled_tasks
        /\ stops' = [ j \in 1 .. Len(stops) - 1 |->
                        IF j < k THEN stops[j] ELSE stops[j + 1] ]
        /\ UNCHANGED << is_running, debug_mode, tasks, subscribers, gifs,
                        calls, timeVars, delivery, mailing, on_demand >>

\* Task t takes a step that leaves it as the record next.
TaskBecomes(t, next) ==
    /\ tasks' = [tasks EXCEPT ![t] = next]
    /\ UNCHANGED << is_running, _scheduled_tasks, debug_mode, stops,
                    subscribers, gifs, calls, stop_outcome,
                    timeVars, delivery, mailing, on_demand >>

\* A task that goes on from its await although cancel() was called on it.
Runs_IgnoringCancel(t, pcs) == tasks[t].pc \in pcs

\* A task can run: it is not done and no cancellation is pending on it.
Runs(t, pcs) ==
    /\ tasks[t].pc \in pcs
    /\ ~tasks[t].cancel_requested

\* The event loop runs a created task for the first time.
TaskStarts ==
    \E t \in TaskIds :
        /\ Runs(t, {"new"})
        /\ TaskBecomes(t, LoopTest(tasks[t], is_running, debug_mode))

\* The timer of the loop's asyncio.sleep(wait_seconds) fires.
TimerFires ==
    \E t \in TaskIds :
        /\ Runs(t, {"sleep"})
        /\ TaskBecomes(t,
             IF tasks[t].kind = "daily"
             THEN DailyWake(tasks[t], is_running, debug_mode)
             ELSE [tasks[t] EXCEPT !.pc = "get_subs"])

\* The sleep of the except Exception handler is over: the next cycle.
RecoveryOver ==
    \E t \in TaskIds :
        /\ Runs(t, {"recover"})
        /\ TaskBecomes(t, LoopTest(tasks[t], is_running, debug_mode))

\* The daily loop's run takes the step that leaves it as the record run.
RunBecomes(t, run) ==
    TaskBecomes(t, AfterRunStep(tasks[t], run, is_running, debug_mode))

InRun(t, pcs) == Runs(t, {"mailing"}) /\ tasks[t].run.pc \in pcs

DailyFindGif ==
    \E t \in TaskIds :
        /\ InRun(t, {"find_gif"})
        /\ \E answer \in GifAnswers :
             RunBecomes(t, GifFetched(tasks[t].run, answer))

DailyGetSubscribers ==
    \E t \in TaskIds :
        /\ InRun(t, {"get_subs"})
        /\ \E ids \in {subscribers, << >>} :
             RunBecomes(t, SubscribersFetched(tasks[t].run, ids))

DailyLookupRaises ==
    \E t \in TaskIds :
        /\ InRun(t, {"find_gif", "get_subs"})
        /\ RunBecomes(t, FetchRaised(tasks[t].run))

DailySendReturns ==
    \E t \in TaskIds :
        /\ InRun(t, {"send"})
        /\ \E ok \in BOOLEAN : RunBecomes(t, SendReturned(tasks[t].run, ok))

DailySendRaises ==
    \E t \in TaskIds :
        /\ InRun(t, {"send"})
        /\ \E exc \in SendErrors :
             RunBecomes(t, SendRaised(tasks[t].run, exc))

DailyPacingOver ==
    \E t \in TaskIds :
        /\ InRun(t, {"pace"})
        /\ RunBecomes(t, PaceOver(tasks[t].run))

\* The smart loop's action (scheduler.py:299-301): the subscriber lookup,
\* then send_test_gif for the first chat, if there is one.
SmartGetSubscribers ==
    \E t \in TaskIds :
        /\ Runs(t, {"get_subs"})
        /\ \E ids \in {subscribers, << >>} :
             TaskBecomes(t,
               IF ids # << >>
               THEN [tasks[t] EXCEPT !.pc = "send_test_gif"]
               ELSE LoopTest(tasks[t], is_running, debug_mode))

\* The subscriber lookup raised: the loop's except Exception handler
\* (scheduler.py:305-307).
SmartLookupRaises ==
    \E t \in TaskIds :
        /\ Runs(t, {"get_subs"})
        /\ TaskBecomes(t, Recover(tasks[t]))

\* send_test_gif returned: the gif or the "no gif" text was sent, or the
\* error text of its own handler was (scheduler.py:197-214).  The loop
\* goes to its next cycle.
SendTestGifReturns ==
    \E t \in TaskIds :
        /\ Runs(t, {"send_test_gif"})
        /\ TaskBecomes(t, LoopTest(tasks[t], is_running, debug_mode))

\* send_test_gif raised: the send of the error text in its handler failed
\* (scheduler.py:214), which reaches the loop's handler.
SendTestGifRaises ==
    \E t \in TaskIds :
        /\ Runs(t, {"send_test_gif"})
        /\ TaskBecomes(t, Recover(tasks[t]))

\* A task on which cancel() was called runs next: CancelledError is
\* raised where it is suspended.
CancelDelivered ==
    \E t \in TaskIds :
        /\ ~Done(tasks[t])
        /\ tasks[t].cancel_requested
        /\ TaskBecomes(t, DeliverCancel(tasks[t]))

Next ==
    \/ start
    \/ stop
    \/ stop_resumes
    \/ TaskStarts
    \/ TimerFires
    \/ RecoveryOver
    \/ DailyFindGif
    \/ DailyGetSubscribers
    \/ DailyLookupRaises
    \/ DailySendReturns
    \/ DailySendRaises
    \/ DailyPacingOver
    \/ SmartGetSubscribers
    \/ SmartLookupRaises
    \/ SendTestGifReturns
    \/ SendTestGifRaises
    \/ CancelDelivered

Spec == Init /\ [][Next]_vars

(***************************************************************************)
(* SpecDaily: the daily loop against the wall clock.  The scheduler is     *)
(* started and stopped one call after the other, there is no subscriber,   *)
(* and the clock is followed through the readings around 08:30 and         *)
(* midnight: the loop reads it when it computes its wait, and its sleep    *)
(* ends at a reading not before the wait is over.                          *)
(***************************************************************************)
DailyTimes ==
    { << 0, 0, 0, 0 >>, << 8, 29, 59, 999999 >>, << 8, 30, 0, 0 >>,
      << 8, 30, 0, 1 >>, << 23, 59, 59, 999999 >> }

DailyInstants ==
    { [ day |-> d, hour |-> hms[1], minute |-> hms[2], second |-> hms[3],
        microsecond |-> hms[4] ] : d \in 0 .. MaxDay, hms \in DailyTimes }

InitDaily ==
    /\ SchedulerConstructed
    /\ debug_mode = FALSE
    /\ subscribers = << >>
    /\ gifs = OneGif
    /\ clock \in { dt \in DailyInstants : dt.day = 0 }
    /\ target_hm = << >>
    /\ wait_seconds = << >>
    /\ cycle = IdleCycle
    /\ DeliveryIdle /\ MailingIdle /\ OnDemandIdle

\* await scheduler.start() once every earlier stop() has returned; the
\* calls followed against the clock are MaxCalls.
SequentialStart == Len(calls) < MaxCalls /\ stops = << >> /\ start

\* await scheduler.stop()
SequentialStop == Len(calls) < MaxCalls /\ stop

\* The head of a cycle of the daily loop t: the wait is computed from the
\* clock as it reads now, and the sleep begins (scheduler.py:237-245).
DailyComputesWait ==
    \E t \in TaskIds :
        /\ tasks[t].kind = "daily"
        /\ Runs(t, {"sleep"})
        /\ ~(cycle.task = t /\ cycle.now # << >>)
        /\ cycle' = [cycle EXCEPT !.loop = "daily", !.task = t,
                                  !.now = << clock >>]
        /\ target_hm' = << 8, 30 >>
        /\ wait_seconds' = << CycleWait(clock) >>
        /\ UNCHANGED << clock, delivery, mailing, on_demand, schedVars >>

\* Time passes.
DailyClockAdvances ==
    /\ \E later \in DailyInstants :
         /\ Before(clock, later)
         /\ clock' = later
    /\ UNCHANGED << target_hm, wait_seconds, cycle,
                    delivery, mailing, on_demand, schedVars >>

\* The sleep of the daily loop t returns and the loop goes on to its
\* action (scheduler.py:245-249).
DailyWakes ==
    \E t \in TaskIds :
        /\ Runs(t, {"sleep"})
        /\ cycle.task = t
        /\ cycle.now # << >>
        /\ SleepIsOver(clock, cycle.now[1], wait_seconds[1])
        /\ tasks' = [tasks EXCEPT
                        ![t] = DailyWake(tasks[t], is_running, debug_mode)]
        /\ cycle' = [cycle EXCEPT !.now = << >>,
                        !.fired = IF is_running THEN << clock >> ELSE @]
        /\ wait_seconds' = << >>
        /\ UNCHANGED << clock, target_hm, is_running, _scheduled_tasks,
                        debug_mode, stops, subscribers, gifs, calls,
                        stop_outcome, delivery, mailing, on_demand >>

NextDaily ==
    \/ SequentialStart
    \/ SequentialStop
    \/ stop_resumes
    \/ TaskStarts
    \/ DailyComputesWait
    \/ DailyClockAdvances
    \/ DailyWakes
    \/ RecoveryOver
    \/ DailyFindGif
    \/ DailyGetSubscribers
    \/ DailyLookupRaises
    \/ CancelDelivered

SpecDaily == InitDaily /\ [][NextDaily]_vars

(***************************************************************************)
(* SpecStop: stop() against job tasks suspended anywhere.  The sends of    *)
(* the daily run are followed inside the delivery functions of             *)
(* telegram_utils.py (send_gif_message for a gif, send_text_message for    *)
(* the fallback text), one await at a time, so that a cancellation can     *)
(* reach the task at a transport call and at a backoff or rate-limit       *)
(* sleep.  The event loop runs every task that is ready: a task on which   *)
(* cancel() was called, and a stop() whose gather is done, are not left    *)
(* waiting for ever.                                                       *)
(***************************************************************************)
\* max_retries: int = 3 (telegram_utils.py:59)
DefaultMaxRetries == 3

InitStop ==
    /\ SchedulerConstructed
    /\ debug_mode \in BOOLEAN
    /\ subscribers = << 1 >>
    /\ gifs = OneGif
    /\ TimeIdle /\ DeliveryIdle /\ MailingIdle /\ OnDemandIdle

\* A delivery call is suspended at one of its awaits.
PendingDelivery == delivery.pc \in {"call", "sleep"}

\* The call the run r makes for its next recipient (scheduler.py:92-97).
SendOf(r) ==
    IF r.gif THEN Deliver("send_gif_message", DefaultMaxRetries)
    ELSE DeliverText

\* Task t is at the send of its run.
AtSend(t) == tasks[t].pc = "mailing" /\ tasks[t].run.pc = "send"

\* The delivery of task t's send takes the step that leaves it as d; when
\* it returned (or raised) the call is over and the run goes on.
SendBecomes(t, d) ==
    /\ delivery' = IF d.pc \in {"returned", "raised"}
                   THEN IdleDelivery ELSE d
    /\ tasks' = [tasks EXCEPT ![t] =
         CASE d.pc = "returned" ->
                AfterRunStep(@, SendReturned(@.run, d.result = "True"),
                             is_running, debug_mode)
           [] d.pc = "raised" ->
                AfterRunStep(@, SendRaised(@.run, "Exception"),
                             is_running, debug_mode)
           [] OTHER -> @]
    /\ UNCHANGED << is_running, _scheduled_tasks, debug_mode, stops,
                    subscribers, gifs, calls, stop_outcome,
                    timeVars, mailing, on_demand >>

\* The transport answers the pending call of the send; the first call is
\* made as the send begins.
SendTransportCall ==
    \E t \in TaskIds :
        /\ InRun(t, {"send"})
        /\ LET d == IF PendingDelivery THEN delivery
                    ELSE SendOf(tasks[t].run)
           IN  /\ d.pc = "call"
               /\ \E r \in Responses : SendBecomes(t, TransportAnswers(d, r))

\* The backoff or rate-limit sleep of the send is over.
SendBackoffOver ==
    \E t \in TaskIds :
        /\ InRun(t, {"send"})
        /\ delivery.pc = "sleep"
        /\ SendBecomes(t, SleepOver(delivery))

\* A task on which cancel() was called runs next: CancelledError is
\* raised where it is suspended, inside the delivery call if it is there.
CancelReachesTask ==
    \E t \in TaskIds :
        /\ ~Done(tasks[t])
        /\ tasks[t].cancel_requested
        /\ tasks' = [tasks EXCEPT ![t] = DeliverCancel(@)]
        /\ delivery' = IF AtSend(t) /\ PendingDelivery
                       THEN Cancelled(delivery) ELSE delivery
        /\ UNCHANGED << is_running, _scheduled_tasks, debug_mode, stops,
                        subscribers, gifs, calls, stop_outcome,
                        timeVars, mailing, on_demand >>

NextStop ==
    \/ SequentialStart
    \/ SequentialStop
    \/ stop_resumes
    \/ TaskStarts
    \/ TimerFires
    \/ RecoveryOver
    \/ DailyFindGif
    \/ DailyGetSubscribers
    \/ DailyLookupRaises
    \/ SendTransportCall
    \/ SendBackoffOver
    \/ DailyPacingOver
    \/ SmartGetSubscribers
    \/ SmartLookupRaises
    \/ SendTestGifReturns
    \/ SendTestGifRaises
    \/ CancelReachesTask

SpecStop ==
    /\ InitStop
    /\ [][NextStop]_vars
    /\ WF_vars(CancelReachesTask)
    /\ WF_vars(stop_resumes)

(***************************************************************************)
(* SpecOnDemand: one call of send_test_gif, or one /testschedule command,  *)
(* on a scheduler that start() may have started.                           *)
(***************************************************************************)
InitOnDemand ==
    /\ \/ \E chat_id \in Chats, day \in Days :
            on_demand = CallSendTestGif(chat_id, day)
       \/ \E chat_id \in Chats :
            on_demand = CallHandleTestSchedule(chat_id)
       \/ on_demand = CallShutdown
    /\ SchedulerConstructed
    /\ debug_mode \in BOOLEAN
    /\ subscribers = << >>
    /\ gifs = {}
    /\ TimeIdle /\ DeliveryIdle /\ MailingIdle

\* A step of the call that also clears the scheduler's running flag.
OnDemandStep_Stops(next) ==
    /\ on_demand' = next
    /\ is_running' = FALSE
    /\ UNCHANGED << timeVars, delivery, mailing, _scheduled_tasks,
                    debug_mode, tasks, stops, subscribers, gifs, calls,
                    stop_outcome >>

\* A step of the call: no statement of send_test_gif or of the handlers
\* assigns to the scheduler's fields.
OnDemandStep(next) ==
    /\ on_demand' = next
    /\ UNCHANGED << timeVars, delivery, mailing, schedVars >>

\* find_random_gif_by_day returned
TestGifLookup ==
    /\ on_demand.pc = "find_gif"
    /\ \E found \in BOOLEAN : OnDemandStep(GifLooked(on_demand, found))

\* the repository raised: only a day that passed the validation reaches it
TestGifLookupRaises ==
    /\ on_demand.pc = "find_gif"
    /\ ~(on_demand.day < 1 \/ on_demand.day > 7)
    /\ OnDemandStep(GifLookupRaised(on_demand))

\* send_gif / send_text returned
TestSendReturns ==
    /\ on_demand.pc \in {"send_gif", "send_text", "error_text"}
    /\ \E ok \in BOOLEAN : OnDemandStep(TestSendReturned(on_demand, ok))

\* send_gif / send_text raised; the handler's send_text_message catches
\* every exception and never raises (telegram_utils.py:36-52)
TestSendRaises ==
    /\ on_demand.fn = "send_test_gif"
    /\ on_demand.pc \in {"send_gif", "send_text", "error_text"}
    /\ OnDemandStep(TestSendRaised(on_demand))

\* /testschedule: the handler calls add_custom_task
AddCustomTask ==
    /\ on_demand.pc = "add_custom_task"
    /\ OnDemandStep(AddCustomTaskCalled(on_demand))

\* shutdown: the application has stopped; "self.scheduler.stop()" and the
\* log line follow, then the await of the database disconnect
\* (bot.py:347-353).
ShutdownStopsScheduler ==
    /\ on_demand.pc = "stop_application"
    /\ on_demand' = [on_demand EXCEPT !.pc = "disconnect"]
    /\ LET after == UnawaitedStop(is_running, _scheduled_tasks, tasks)
       IN  /\ is_running' = after[1]
           /\ _scheduled_tasks' = after[2]
           /\ tasks' = after[3]
    /\ UNCHANGED << debug_mode, stops, subscribers, gifs, calls,
                    stop_outcome, timeVars, delivery, mailing >>

\* shutdown: stopping the application raised; shutdown is left
ShutdownRaises ==
    /\ on_demand.pc = "stop_application"
    /\ OnDemandStep([on_demand EXCEPT !.pc = "raised"])

\* shutdown: the database is disconnected and shutdown returns
ShutdownReturns ==
    /\ on_demand.pc = "disconnect"
    /\ OnDemandStep([on_demand EXCEPT !.pc = "returned"])

NextOnDemand ==
    \/ start
    \/ TaskStarts
    \/ ShutdownStopsScheduler
    \/ ShutdownRaises
    \/ ShutdownReturns
    \/ TestGifLookup
    \/ TestGifLookupRaises
    \/ TestSendReturns
    \/ TestSendRaises
    \/ AddCustomTask

SpecOnDemand == InitOnDemand /\ [][NextOnDemand]_vars

(***************************************************************************)
(* Claims.                                                                 *)
(***************************************************************************)

\* C1: for every target (hour, minute) and every clock reading now, the
\* wait w returned by _get_seconds_until_target_time satisfies
\* 0 < w <= 24h, and now + w is (hour, minute, 0) of today when that
\* instant is strictly after now, and of tomorrow otherwise.
C1_NextFireTime ==
    wait_seconds # << >> =>
        LET hour   == target_hm[1]
            minute == target_hm[2]
            w      == wait_seconds[1]
            today  == [ day |-> clock.day, hour |-> hour, minute |-> minute,
                        second |-> 0, microsecond |-> 0 ]
            tomorrow == [today EXCEPT !.day = clock.day + 1]
            \* now + w, as whole seconds and microseconds
            sum_us == clock.microsecond + w.microseconds
            fire_s == ToSeconds(clock) + w.seconds
                        + (IF sum_us >= MicrosPerSecond THEN 1 ELSE 0)
            fire_us == sum_us % MicrosPerSecond
            is(dt) == fire_s = ToSeconds(dt) /\ fire_us = 0
        IN  /\ w.microseconds \in 0 .. MicrosPerSecond - 1
            /\ w.seconds > 0 \/ (w.seconds = 0 /\ w.microseconds > 0)
            /\ \/ w.seconds < SecondsPerDay
               \/ w.seconds = SecondsPerDay /\ w.microseconds = 0
            /\ IF Before(clock, today) THEN is(today) ELSE is(tomorrow)

\* C1 witness: the clock reads exactly the target time (08:30:00.000000)
\* and the wait is a full day; and a reading one microsecond earlier.
C1_Witness ==
    /\ wait_seconds = << [seconds |-> SecondsPerDay, microseconds |-> 0] >>
    /\ target_hm = << 8, 30 >>
    /\ clock.hour = 8 /\ clock.minute = 30
    /\ clock.second = 0 /\ clock.microsecond = 0

\* What the claims call a retryable failure and a terminal failure.
Retryable == {"TimedOut", "NetworkError"}
Terminal  == {"BadRequest", "BadRequest_chat_not_found", "Forbidden",
              "Exception"}

Kinds(answers) == { answers[i].kind : i \in 1 .. Len(answers) }
Counted(answers) ==
    Cardinality({ i \in 1 .. Len(answers) : answers[i].kind # "RetryAfter" })

\* C3: with max_retries = k >= 1 and a transport that answers every call
\* with a timeout or a network error, send_gif_message and
\* send_gif_with_retry make exactly k transport calls and return False.
C3_RetryBound ==
    ( /\ delivery.pc = "returned"
      /\ delivery.max_retries >= 1
      /\ Kinds(delivery.calls) \subseteq Retryable )
    => /\ Len(delivery.calls) = delivery.max_retries
       /\ delivery.result = "False"

\* C3 witness: three attempts, all of them retryable failures of both
\* kinds, and the call has returned.
C3_Witness ==
    /\ delivery.pc = "returned"
    /\ delivery.max_retries = 3
    /\ Len(delivery.calls) = 3
    /\ Kinds(delivery.calls) = Retryable

\* C4 (as claimed): whenever the transport answers the first call of
\* send_gif_message with RetryAfter(w) and would answer the next with
\* success, the call sleeps once, for w, makes the second call and returns
\* True - for every max_retries >= 1.
C4_RateLimitThenSuccess ==
    ( /\ delivery.fn = "send_gif_message"
      /\ delivery.pc = "returned"
      /\ delivery.max_retries >= 1
      /\ Len(delivery.calls) >= 1
      /\ delivery.calls[1].kind = "RetryAfter"
      /\ \A i \in 2 .. Len(delivery.calls) : delivery.calls[i].kind = "ok" )
    => /\ Len(delivery.calls) = 2
       /\ delivery.sleeps = << delivery.calls[1].retry_after >>
       /\ delivery.result = "True"

\* C5 (as claimed): when send_gif_message gives up on a transport that
\* answers with rate-limit signals and retryable failures only, it has
\* made max_retries calls that were not rate-limited.
C5_RateLimitUncounted ==
    ( /\ delivery.fn = "send_gif_message"
      /\ delivery.pc = "returned"
      /\ delivery.result = "False"
      /\ Kinds(delivery.calls) \subseteq Retryable \cup {"RetryAfter"} )
    => Counted(delivery.calls) = delivery.max_retries

\* C6: a terminal failure (bad request, chat not found, blocked, any
\* unclassified error) on attempt j of send_gif_message ends the call at
\* once: it is the j-th and last transport call, False is returned, and
\* no sleep follows it.
C6_TerminalShortCircuit ==
    delivery.fn = "send_gif_message" =>
        \A j \in 1 .. Len(delivery.calls) :
            delivery.calls[j].kind \in Terminal =>
                /\ j = Len(delivery.calls)
                /\ j <= delivery.max_retries
                /\ delivery.pc = "returned"
                /\ delivery.result = "False"
                /\ Len(delivery.sleeps) = j - 1

\* C6 witness: a timeout on the first attempt, a backoff, and "chat not
\* found" on the second.
C6_Witness ==
    /\ delivery.fn = "send_gif_message"
    /\ delivery.pc = "returned"
    /\ Len(delivery.calls) = 2
    /\ delivery.calls[1].kind = "TimedOut"
    /\ delivery.calls[2].kind = "BadRequest_chat_not_found"
    /\ delivery.sleeps = << 5 >>

\* A run that entered its loop over the snapshot and ended otherwise than
\* by cancellation.
LoopEnded(r) == r.i >= 1 /\ r.pc \in {"returned", "raised"}

\* C7: when a broadcast run ends, every recipient of the snapshot has been
\* counted exactly once: sent_count + failed_count = N in
\* send_daily_gif_message; in run_daily_mailing, which keeps success_count
\* only, success_count plus the failures it logged is N.  A run that
\* finds no subscribers ends with N = 0 and nothing counted.
C7_CountsAddUp ==
    /\ LoopEnded(mailing) =>
         /\ mailing.summary = "counts"
         /\ mailing.fn = "send_daily_gif_message" =>
              mailing.sent_count + mailing.failed_count
                  = Len(mailing.chat_ids)
         /\ mailing.fn = "run_daily_mailing" =>
              mailing.sent_count + mailing.errors_logged
                  = Len(mailing.chat_ids)
    /\ mailing.summary = "no_subscribers" =>
         /\ Len(mailing.chat_ids) = 0
         /\ mailing.sent_count = 0
         /\ mailing.errors_logged = 0

\* C7 witness: a finished run over two recipients, one sent and one failed.
C7_Witness ==
    /\ LoopEnded(mailing)
    /\ Len(mailing.chat_ids) = 2
    /\ mailing.sent_count = 1
    /\ mailing.errors_logged = 1

\* C8: in a run that is not cancelled, the recipients a send was started
\* for are the snapshot, in its order, each once - whichever sends raise.
C8_SnapshotOrder ==
    /\ LoopEnded(mailing) => Attempted(mailing) = mailing.chat_ids
    /\ mailing.i >= 1 =>
         \* and while the run is under way, a prefix of it
         /\ Len(Attempted(mailing)) <= Len(mailing.chat_ids)
         /\ Attempted(mailing)
              = SubSeq(mailing.chat_ids, 1, Len(Attempted(mailing)))

\* C8 witness: the first send raised and the second recipient was sent to.
C8_Witness ==
    /\ LoopEnded(mailing)
    /\ Len(mailing.chat_ids) = 2
    /\ mailing.errors_logged = 1
    /\ mailing.sent_count = 1
    /\ mailing.events[1].ev = "send"
    /\ mailing.events[2].ev = "send"

(***************************************************************************)
(* start() and stop().                                                     *)
(***************************************************************************)
LastCall == IF calls = << >> THEN None ELSE calls[Len(calls)]

StartCalled == calls' = Append(calls, "start")
StopCalled  == calls' = Append(calls, "stop")

OnlyStarts == calls # << >> /\ \A k \in 1 .. Len(calls) : calls[k] = "start"

\* A daily-loop task that has not ended.
LiveDaily(ts) == { t \in DOMAIN ts : ts[t].kind = "daily" /\ ~Done(ts[t]) }

\* The tasks the first start() of a scheduler creates and registers.
FirstStartTasks == [ k \in 1 .. Len(StartedKinds) |-> k ]

C2_StartsOnly ==
    OnlyStarts =>
        /\ is_running
        /\ Cardinality(LiveDaily(tasks)) = 1
        /\ _scheduled_tasks = FirstStartTasks
        /\ Len(tasks) = Len(StartedKinds)

C2_SecondStart ==
    (StartCalled /\ LastCall = "start") =>
        /\ is_running
        /\ UNCHANGED << is_running, _scheduled_tasks, tasks, stops,
                        stop_outcome, debug_mode, subscribers, gifs >>

StopReturns ==
    \/ StopCalled /\ stops' = stops
    \/ Len(stops') < Len(stops)

\* C9 (as claimed): when a stop() call returns, the running flag is false,
\* the managed list is empty, every task that was in it is cancelled and
\* has ended, and the call raised nothing.
C9_StopPostcondition ==
    [][ StopReturns =>
          /\ ~is_running'
          /\ _scheduled_tasks' = << >>
          /\ \A t \in Range(_scheduled_tasks) :
               Done(tasks'[t]) /\ tasks'[t].cancel_requested
          /\ stop_outcome' = "returned" ]_vars

C10_Stopped ==
    (LastCall = "stop" /\ stops = << >>) =>
        /\ ~is_running
        /\ _scheduled_tasks = << >>
        /\ stop_outcome = "returned"

C10_StopAgain ==
    (StopCalled /\ LastCall \in {None, "stop"} /\ stops = << >>) =>
        /\ StopReturns
        /\ ~is_running'
        /\ _scheduled_tasks' = << >>
        /\ stop_outcome' = "returned"
        /\ UNCHANGED << tasks, stops >>
        /\ LastCall = "stop" =>
             UNCHANGED << is_running, _scheduled_tasks, stop_outcome >>

\* C10: once the last call made is a stop() and every stop() has returned,
\* the scheduler is stopped, its managed list is empty and no stop()
\* raised; a stop() on a scheduler never started, or one that follows a
\* stop() that returned, returns at once, and the second of two leaves the
\* state the first one left.
C10_StopSafe == []C10_Stopped /\ [][C10_StopAgain]_vars

\* C10 witness: start, then stop() twice; both stops returned and the
\* daily-loop task ended.
C10_Witness ==
    /\ calls = << "start", "stop", "stop" >>
    /\ stops = << >>
    /\ Done(tasks[1])
    /\ ~is_running
    /\ _scheduled_tasks = << >>

(***************************************************************************)
(* The daily loop under cancellation and errors.                           *)
(***************************************************************************)
\* Task t is inside run_daily_mailing.
InMailing(ts, t) == ts[t].pc = "mailing"

C11_NoRunOnceCancelled ==
    \A t \in TaskIds :
        tasks[t].cancel_requested =>
            /\ tasks'[t].cancel_requested
            /\ ~InMailing(tasks, t) => ~InMailing(tasks', t)
            /\ tasks'[t].run.events = tasks[t].run.events

\* C11: once cancel() was called on a job task (by stop()), the task never
\* enters a broadcast run again - not from the sleep it was cancelled in,
\* not in a later cycle - and a run it is in starts no further send.
C11_CancelledSleepSkipsAction == [][C11_NoRunOnceCancelled]_vars

\* C11 witness: stop() was called while the daily loop slept; the loop has
\* ended without ever running the broadcast.
C11_Witness ==
    /\ calls = << "start", "stop" >>
    /\ tasks[1].kind = "daily"
    /\ tasks[1].pc = "returned"
    /\ tasks[1].cancel_requested
    /\ tasks[1].run = IdleMailing

\* C12 (as claimed): a delivery in flight when stop() is called runs to
\* its end: a run suspended in a send is never left by the cancellation.
C12_InFlightSendCompletes ==
    [][ \A t \in TaskIds :
          (InMailing(tasks, t) /\ tasks[t].run.pc = "send") =>
              tasks'[t].run.pc # "cancelled" ]_vars

Dailies == { t \in TaskIds : tasks[t].kind = "daily" }

\* The loop of a daily task ends only once stop() was called.
C13_EndsOnlyByStop ==
    \A t \in Dailies :
        Done(tasks[t]) => \E k \in 1 .. Len(calls) : calls[k] = "stop"

\* A step of a daily task itself (not a cancel() on it, nor the delivery
\* of its cancellation).
C13_Cycle ==
    \A t \in Dailies :
        (~tasks'[t].cancel_requested /\ tasks'[t] # tasks[t]) =>
            \* the action raised: the handler's sleep, not the end
            /\ (InMailing(tasks, t) /\ tasks'[t].run.pc = "raised") =>
                   tasks'[t].pc = "recover"
            \* the handler's sleep is over: the wait for the next fire time
            /\ (tasks[t].pc = "recover" /\ is_running) =>
                   tasks'[t].pc = "sleep"
            \* the wait after a failed cycle is over: the action again
            /\ (tasks[t].pc = "sleep" /\ tasks[t].run.pc = "raised"
                  /\ is_running) =>
                   /\ InMailing(tasks', t)
                   /\ tasks'[t].run = StartRun("run_daily_mailing")

\* C13: an error of the daily action does not end the daily loop: the
\* loop sleeps in its handler, then waits for the next fire time and runs
\* the action again, after any number of failed cycles, for as long as
\* the scheduler runs; the loop ends only once stop() was called.
C13_LoopSurvivesErrors == []C13_EndsOnlyByStop /\ [][C13_Cycle]_vars

\* C13 witness: the action raised, the handler's sleep is over and the
\* loop waits for the next fire time, the scheduler running.
C13_Witness ==
    /\ calls = << "start" >>
    /\ is_running
    /\ tasks[1].kind = "daily"
    /\ tasks[1].pc = "sleep"
    /\ tasks[1].run.pc = "raised"

C14_EmptyListStep ==
    \A t \in Dailies :
        (DailyGetSubscribers /\ tasks'[t] # tasks[t]
           /\ tasks'[t].run.chat_ids = << >>) =>
            /\ tasks'[t].run.pc = "returned"
            /\ tasks'[t].run.events = << >>
            /\ tasks'[t].run.sent_count = 0
            /\ is_running => tasks'[t].pc = "sleep"

SendEvents(r) == SelectSeq(r.events, LAMBDA e : e.ev = "send")

C15_TextToEveryone ==
    (LoopEnded(mailing) /\ ~mailing.gif) =>
        /\ Attempted(mailing) = mailing.chat_ids
        /\ \A k \in 1 .. Len(SendEvents(mailing)) :
             SendEvents(mailing)[k].item = "text"

C15_SuccessCounted ==
    (~mailing.gif /\ mailing'.delivered = mailing.delivered + 1) =>
        mailing'.sent_count = mailing.sent_count + 1

\* C15: a run whose gif lookup found nothing is not skipped: when its loop
\* has ended, a send of the fallback text was started for every recipient
\* of the snapshot, in order, and each text send that reported success
\* added one to the sent count.
C15_FallbackText == []C15_TextToEveryone /\ [][C15_SuccessCounted]_vars

\* C15 witness: no gif, two recipients, both text sends reported success
\* and both were counted.
C15_Witness ==
    /\ LoopEnded(mailing)
    /\ ~mailing.gif
    /\ Len(mailing.chat_ids) = 2
    /\ Len(SendEvents(mailing)) = 2
    /\ mailing.delivered = 2
    /\ mailing.sent_count = 2

\* C19 (as claimed): a recipient is added to the sent count only if the
\* send for it reported success: the count never exceeds the number of
\* sends that returned True.
C19_CountedOnlyIfDelivered == mailing.sent_count <= mailing.delivered

(***************************************************************************)
(* Calls on demand.                                                        *)
(***************************************************************************)
\* C16 (as claimed): the scheduler offers add_custom_task: once the
\* /testschedule handler has called add_custom_task(10, action) on a
\* running scheduler, the call has raised nothing and a job for the action
\* is among the managed tasks.
C16_CustomTaskRegistered ==
    (on_demand.fn = "handle_test_schedule"
       /\ on_demand.pc # "add_custom_task" /\ is_running) =>
        /\ on_demand.error = None
        /\ \E t \in Range(_scheduled_tasks) : tasks[t].kind = "custom"

\* The gif send of the call reported success.
GifDelivered(c) ==
    \E k \in 1 .. Len(c.sends) :
        c.sends[k].item = "send_gif" /\ c.sends[k].reported = "True"

\* C17 (as claimed): send_test_gif returns True if and only if the lookup
\* gave a gif and the send of it reported success, and False otherwise.
C17_TrueIffDelivered ==
    (on_demand.fn = "send_test_gif" /\ on_demand.pc = "returned") =>
        /\ on_demand.result \in {"True", "False"}
        /\ on_demand.result = "True" <=>
             (on_demand.gif = "gif" /\ GifDelivered(on_demand))

\* C18 (as claimed): the lookup for a day outside 1..7 fails with an
\* error the caller sees: it does not answer, and never with the "absent"
\* answer of a day that has no gif.
C18_InvalidDayRaises ==
    (on_demand.fn = "send_test_gif" /\ on_demand.gif # None
       /\ (on_demand.day < 1 \/ on_demand.day > 7)) =>
        on_demand.gif = "raised"

(***************************************************************************)
(* Overlapping start() and stop().                                         *)
(***************************************************************************)
\* The daily-loop tasks that can still run the broadcast: not ended, and
\* with no cancellation pending (a pending one ends the task at its next
\* step).
ActiveDaily(ts) == { t \in LiveDaily(ts) : ~ts[t].cancel_requested }

\* C20 (as claimed): whatever the interleaving of start() and stop()
\* calls, at most one daily-loop task that can run the broadcast is alive
\* at a time.
C20_OneDailyLoop == Cardinality(ActiveDaily(tasks)) <= 1

\* C21 (as claimed): no orphan job: every task start() created that has
\* not ended is in the managed list, where a later stop() finds it.
C21_NoOrphanTask ==
    \A t \in TaskIds : ~Done(tasks[t]) => t \in Range(_scheduled_tasks)

\* C22 (as claimed): once SkufBot.shutdown() has returned, the scheduler
\* is stopped: the running flag is false, cancel() was called on every
\* job task and the managed list is empty.
C22_ShutdownStopsScheduler ==
    (on_demand.fn = "shutdown" /\ on_demand.pc = "returned") =>
        /\ ~is_running
        /\ _scheduled_tasks = << >>
        /\ \A t \in TaskIds : Done(tasks[t]) \/ tasks[t].cancel_requested

\* C23 (as claimed): a text send whose first attempt fails with a timeout,
\* a transient network error or a rate-limit signal is tried again: the
\* call does not return after that one attempt.
C23_TextRetried ==
    ( /\ delivery.fn = "send_text_message"
      /\ Len(delivery.calls) >= 1
      /\ delivery.calls[1].kind \in Retryable \cup {"RetryAfter"} )
    => ~(delivery.pc = "returned" /\ Len(delivery.calls) = 1)

\* C24 (as claimed): in a delivery without rate-limit answers the sleep
\* after the n-th failed attempt lasts n * 5 seconds, whichever retryable
\* kind it was, and no sleep follows the last allowed attempt.
C24_LinearBackoff ==
    ( /\ delivery.fn \in DeliveryFns
      /\ "RetryAfter" \notin Kinds(delivery.calls) )
    => /\ \A n \in 1 .. Len(delivery.sleeps) : delivery.sleeps[n] = n * 5
       /\ \/ Len(delivery.sleeps) = 0
          \/ Len(delivery.sleeps) < delivery.max_retries

\* What is left of send_gif_message's loop: two for each attempt not yet
\* started, one less once the attempt's call is pending.
Remaining(d) ==
    IF d.pc \in {"call", "sleep"}
    THEN 2 * (d.max_retries - d.attempt) - (IF d.pc = "sleep" THEN 1 ELSE 0)
    ELSE 0

\* C25: send_gif_message with max_retries = k never makes more than k
\* transport calls, rate-limit answers included, and each of its steps
\* brings the end of the loop nearer: it terminates whatever the transport
\* answers, also when every answer is a rate-limit signal.
C25_BoundedCalls ==
    delivery.fn = "send_gif_message" =>
        /\ Len(delivery.calls) <= delivery.max_retries
        /\ delivery.attempt <= delivery.max_retries
        /\ Remaining(delivery) >= 0

C25_Progress ==
    ( delivery.fn = "send_gif_message" /\ delivery' # delivery )
    => Remaining(delivery') < Remaining(delivery)

C25_Terminates == []C25_BoundedCalls /\ [][C25_Progress]_vars

\* C25 witness: three rate-limit answers in a row with max_retries = 3,
\* and the call has returned False.
C25_Witness ==
    /\ delivery.fn = "send_gif_message"
    /\ delivery.max_retries = 3
    /\ delivery.pc = "returned"
    /\ delivery.result = "False"
    /\ Len(delivery.calls) = 3
    /\ Kinds(delivery.calls) = {"RetryAfter"}

\* C26: send_gif_message and send_text_message never end by raising one of
\* the transport's errors: a call that ended returned True or False, False
\* whenever its last transport call failed, or was cancelled.
C26_FailureIsReturned ==
    ( /\ delivery.fn \in {"send_gif_message", "send_text_message"}
      /\ delivery.pc \notin {"call", "sleep"} )
    => \/ delivery.pc = "cancelled"
       \/ /\ delivery.pc = "returned"
          /\ delivery.result \in {"True", "False"}
          /\ delivery.result = "True" <=>
                 /\ delivery.calls # << >>
                 /\ delivery.calls[Len(delivery.calls)].kind = "ok"

\* C26 witness: an unclassified error on the third attempt of
\* send_gif_message, after a timeout and a network error.
C26_Witness ==
    /\ delivery.fn = "send_gif_message"
    /\ delivery.pc = "returned"
    /\ delivery.result = "False"
    /\ Len(delivery.calls) = 3
    /\ delivery.calls[1].kind = "TimedOut"
    /\ delivery.calls[2].kind = "NetworkError"
    /\ delivery.calls[3].kind = "Exception"

\* The daily-loop tasks inside run_daily_mailing with no cancellation
\* pending: their runs are executing, or suspended at an await.
RunningDaily ==
    { t \in Dailies : InMailing(tasks, t) /\ ~tasks[t].cancel_requested }

\* One daily loop's phases: a wait begins at the loop's start, after the
\* error handler's sleep, or after the cycle's run has returned; a run
\* begins only out of the wait; and the run's record is in progress exactly
\* while the loop is in its action.
C27_OnePhase ==
    \A t \in Dailies :
        /\ (tasks[t].pc # "sleep" /\ tasks'[t].pc = "sleep") =>
              \/ tasks[t].pc \in {"new", "recover"}
              \/ InMailing(tasks, t) /\ tasks'[t].run.pc = "returned"
        /\ (~InMailing(tasks, t) /\ InMailing(tasks', t)) =>
              tasks[t].pc = "sleep"
        /\ tasks'[t].run.pc \in {"find_gif", "get_subs", "send", "pace"}
              => InMailing(tasks', t)

\* C27 (as claimed): each daily loop is in one phase at a time, and two
\* broadcast runs of the daily job never overlap.
C27_RunsNeverOverlap ==
    [](Cardinality(RunningDaily) <= 1) /\ [][C27_OnePhase]_vars

\* The smart-loop tasks inside their action (the subscriber lookup or
\* send_test_gif) with no cancellation pending.
RunningSmart ==
    { t \in TaskIds : /\ tasks[t].kind = "smart"
                      /\ tasks[t].pc \in {"get_subs", "send_test_gif"}
                      /\ ~tasks[t].cancel_requested }

\* C28 (as claimed): while a daily loop's broadcast run is in flight, no
\* other job of the scheduler is inside its own action.
C28_OneActionInFlight == RunningDaily # {} => RunningSmart = {}

\* The sequence head is a prefix of the sequence whole.
IsPrefix(head, whole) ==
    /\ Len(head) <= Len(whole)
    /\ \A k \in 1 .. Len(head) : head[k] = whole[k]

\* The recipients of a run: read from the table once, and the run's sends
\* go down the list that read gave, to its end if the run ends normally.
C29_SnapshotOnly ==
    /\ mailing.sub_lookups <= 1
    /\ mailing.i >= 1 => mailing.sub_lookups = 1
    /\ IsPrefix(Attempted(mailing), mailing.chat_ids)
    /\ LoopEnded(mailing) => Attempted(mailing) = mailing.chat_ids

\* The list is what the table held when it was read (or empty, after a
\* failed query), stays as read, and a change of the table is no step of
\* the run.
C29_ReadOnce ==
    /\ (mailing.sub_lookups = 0 /\ mailing'.sub_lookups = 1) =>
          mailing'.chat_ids \in {subscribers, << >>}
    /\ mailing.sub_lookups = 1 => mailing'.chat_ids = mailing.chat_ids
    /\ subscribers' # subscribers => mailing' = mailing

\* C29: the recipients contacted in a broadcast run are the snapshot the
\* run read, once, from the subscriber table: a chat that subscribes after
\* the read is not contacted and one that unsubscribes stays in the run.
C29_SnapshotRecipients == []C29_SnapshotOnly /\ [][C29_ReadOnce]_vars

\* C29 witness: the run read chats 1 and 2 and is sending to chat 2, which
\* has unsubscribed since the read.
C29_Witness ==
    /\ mailing.fn = "run_daily_mailing"
    /\ mailing.pc = "send"
    /\ mailing.chat_ids = << 1, 2 >>
    /\ Attempted(mailing) = << 1, 2 >>
    /\ subscribers = << 1 >>

\* What a run's sends carry is the gif the run's one lookup gave, or the
\* fallback text when it gave none.
C30_OneItem ==
    /\ mailing.gif_lookups <= 1
    /\ mailing.i >= 1 => mailing.gif_lookups = 1
    /\ \A k \in 1 .. Len(SendEvents(mailing)) :
          SendEvents(mailing)[k].item =
              IF mailing.gif THEN mailing.file_id ELSE "text"

\* Once looked up the gif stays the run's gif, and an upload or a deletion
\* is no step of the run.
C30_ResolvedOnce ==
    /\ mailing.gif_lookups = 1 =>
          /\ mailing'.gif = mailing.gif
          /\ mailing'.file_id = mailing.file_id
    /\ gifs' # gifs => mailing' = mailing

\* C30: within one broadcast run the gif is looked up once and every
\* recipient is sent that gif (or every one the fallback text), whatever
\* is uploaded or deleted while the run goes on.
C30_SameItemForAll == []C30_OneItem /\ [][C30_ResolvedOnce]_vars

\* C30 witness: the run is sending gif_a to its second recipient, after
\* gif_a was deleted and gif_b uploaded.
C30_Witness ==
    /\ mailing.pc = "send"
    /\ mailing.i = 2
    /\ mailing.file_id = "gif_a"
    /\ Len(SendEvents(mailing)) = 2
    /\ \A k \in 1 .. 2 : SendEvents(mailing)[k].item = "gif_a"
    /\ gifs = {"gif_b"}

\* C34 (as claimed): in a broadcast run every send that is followed by
\* another send is followed by a pacing sleep first, however it ended.
C34_PacedBetweenSends ==
    \A k \in 1 .. Len(mailing.events) - 1 :
        mailing.events[k].ev = "send" => mailing.events[k + 1].ev = "pace"

\* The delivery d fed the transport answers one after the other, each
\* backoff sleep ending before the next: where the call stands when the
\* answers are used up, or where it ended before that.
RECURSIVE Replay(_, _)
Replay(d, answers) ==
    CASE d.pc = "sleep" -> Replay(SleepOver(d), answers)
      [] d.pc = "call" /\ answers # << >> ->
            Replay(TransportAnswers(d, Head(answers)), Tail(answers))
      [] OTHER -> d

OtherRevision(fn) ==
    IF fn = "send_gif_message" THEN "send_gif_with_retry"
    ELSE "send_gif_message"

\* C37 (as claimed): a call of one of send_gif_message and
\* send_gif_with_retry that has returned made the calls, slept the sleeps
\* and returned the value that the other revision does with the same
\* max_retries and the same transport answers.
C37_RevisionsEquivalent ==
    (delivery.fn \in DeliveryFns /\ delivery.pc = "returned") =>
        LET other == Replay(Deliver(OtherRevision(delivery.fn),
                                    delivery.max_retries),
                            delivery.calls)
        IN  /\ other.pc = "returned"
            /\ other.calls = delivery.calls
            /\ other.sleeps = delivery.sleeps
            /\ other.result = delivery.result

\* A send_test_gif call that has returned made its lookup and a send.
C35_Performs ==
    (on_demand.fn = "send_test_gif" /\ on_demand.pc = "returned") =>
        /\ on_demand.gif # None
        /\ Len(on_demand.sends) >= 1

\* A step of a send_test_gif call leaves the flag, the managed list, the
\* tasks (the daily loop's sleep among them) and the suspended stops alone.
C35_Frame ==
    (on_demand.fn = "send_test_gif" /\ on_demand' # on_demand) =>
        UNCHANGED << is_running, _scheduled_tasks, tasks, stops >>

\* C35: send_test_gif is independent of the recurring cycle: whatever the
\* chat, the day and the outcome of the lookup and of the sends, it makes
\* its lookup and its send whether the scheduler runs or not, and changes
\* neither the running flag, nor the managed tasks, nor the daily loop's
\* pending sleep.
C35_Independent == []C35_Performs /\ [][C35_Frame]_vars

\* C35 witness: the scheduler runs, its daily loop sleeps, and a
\* send_test_gif call has sent the gif and returned.
C35_Witness ==
    /\ on_demand.fn = "send_test_gif"
    /\ on_demand.pc = "returned"
    /\ GifDelivered(on_demand)
    /\ is_running
    /\ _scheduled_tasks = << 1 >>
    /\ tasks[1].pc = "sleep"

\* The tasks a step created.
Launched == (Len(tasks) + 1) .. Len(tasks')

\* A start() on a scheduler that is not running and has no stop() under
\* way: the flag is set, one daily loop is launched, with the smart test
\* loop in debug mode and alone otherwise, and the managed list holds the
\* launched tasks and nothing else.
C36_StartLaunches ==
    (StartCalled /\ ~is_running /\ stops = << >>) =>
        /\ is_running'
        /\ Cardinality({ t \in Launched : tasks'[t].kind = "daily" }) = 1
        /\ Cardinality(Launched) = IF debug_mode THEN 2 ELSE 1
        /\ \A t \in Launched :
              /\ tasks'[t].kind \in {"daily", "smart"}
              /\ tasks'[t].pc = "new"
              /\ ~tasks'[t].cancel_requested
        /\ Range(_scheduled_tasks') = Launched
        /\ Len(_scheduled_tasks') = Cardinality(Launched)

\* C36: a start() on a stopped scheduler sets the running flag and
\* launches exactly one daily loop; the managed list then holds that task,
\* and in debug mode the diagnostic loop's too, and nothing else - also
\* when the start() follows a stop() that has returned.
C36_StartOnStopped == [][C36_StartLaunches]_vars

\* C36 witness: start(), stop() and start() again with debug mode off:
\* the first daily task has ended and the list holds the second.
C36_Witness ==
    /\ calls = << "start", "stop", "start" >>
    /\ ~debug_mode
    /\ is_running
    /\ stops = << >>
    /\ Done(tasks[1])
    /\ _scheduled_tasks = << 2 >>
    /\ tasks[2].kind = "daily"

\* C38 (as claimed): the wait the smart loop computes is more than 0 and
\* at most 60 seconds, whatever time passed between its two readings of
\* the clock.
C38_WaitWithinAMinute ==
    (cycle.loop = "smart" /\ wait_seconds # << >>) =>
        LET w == wait_seconds[1]
        IN  /\ w.seconds > 0 \/ (w.seconds = 0 /\ w.microseconds > 0)
            /\ w.seconds < 60 \/ (w.seconds = 60 /\ w.microseconds = 0)

\* The wait of a cycle of the daily loop leads from the clock reading it
\* was computed from to 08:30:00.000000 of that day if that is still
\* ahead, and of the next day otherwise.
C31_ExactTarget ==
    (cycle.loop = "daily" /\ cycle.now # << >>) =>
        LET now   == cycle.now[1]
            at    == WakeInstant(now, wait_seconds[1])
            today == (now.day * 24 + 8) * 3600 + 30 * 60
            ahead == ToSeconds(now) < today
        IN  /\ target_hm = << 8, 30 >>
            /\ at.microseconds = 0
            /\ at.seconds = IF ahead THEN today ELSE today + SecondsPerDay

\* Each wait is computed from the clock as it reads at that step, and the
\* daily action is started only by the loop whose sleep was computed in
\* this cycle and is over.
C31_FreshEachCycle ==
    /\ (cycle'.now # << >> /\ cycle'.now # cycle.now) =>
          cycle'.now = << clock >>
    /\ \A t \in Dailies :
          (~InMailing(tasks, t) /\ InMailing(tasks', t)) =>
              /\ cycle.task = t
              /\ cycle.now # << >>
              /\ SleepIsOver(clock, cycle.now[1], wait_seconds[1])
              /\ cycle'.now = << >>

\* C31: every start of the daily action follows a sleep whose end was
\* computed, at the head of that cycle and from the clock as it read then,
\* as the first 08:30:00 strictly later - however long the previous
\* action or the error handler's sleep took.
C31_NoDrift == []C31_ExactTarget /\ [][C31_FreshEachCycle]_vars

\* C31 witness: the action was started at 08:30:00 of day 0 and the next
\* cycle began at 23:59:59.999999: its wait is 8 h 30 min and 1
\* microsecond, to 08:30:00 of day 1.
C31_Witness ==
    /\ cycle.fired # << >>
    /\ cycle.fired[1].day = 0
    /\ cycle.fired[1].hour = 8
    /\ cycle.now # << >>
    /\ cycle.now[1].day = 0
    /\ cycle.now[1].hour = 23
    /\ wait_seconds = << [seconds |-> 8 * 3600 + 30 * 60, microseconds |-> 1] >>

\* C32 (as claimed): the daily action is not started twice on one calendar
\* day: a start of it is on a later day than the start before.
C32_OncePerDay ==
    [][ \A t \in Dailies :
          ( /\ ~InMailing(tasks, t)
            /\ InMailing(tasks', t)
            /\ cycle.fired # << >> )
          => cycle.fired[1].day < clock.day ]_vars


(***************************************************************************)
(* C33: stop() always terminates.  Wherever a job task is suspended when   *)
(* stop() calls cancel() on it - the sleep until the next fire time, a     *)
(* transport call, the pacing sleep, a backoff or rate-limit sleep inside  *)
(* the delivery, the recovery sleep - the next step of the task is the     *)
(* CancelledError, which ends the delivery call and the task; every task   *)
(* a suspended stop() awaits is done or has its cancellation pending; and  *)
(* every stop() that suspended returns.                                    *)
(***************************************************************************)
C33_Awaited ==
    \A k \in 1 .. Len(stops) : \A t \in stops[k] :
        Done(tasks[t]) \/ tasks[t].cancel_requested

C33_CancelEndsTask ==
    \A t \in TaskIds :
        (tasks[t].cancel_requested /\ ~Done(tasks[t])
            /\ tasks'[t] # tasks[t]) =>
            /\ Done(tasks'[t])
            /\ ~tasks'[t].run.pc \in {"find_gif", "get_subs", "send", "pace"}
            /\ (AtSend(t) /\ PendingDelivery) => delivery'.pc = "cancelled"

C33_StopReturns ==
    stops # << >> ~> (stops = << >> /\ stop_outcome = "returned")

C33_StopTerminates ==
    /\ []C33_Awaited
    /\ [][C33_CancelEndsTask]_vars
    /\ C33_StopReturns

\* stop() returned after it cancelled the daily loop inside the sleep that
\* send_gif_message makes for a RetryAfter answer.
C33_Witness ==
    /\ calls = << "start", "stop" >>
    /\ stops = << >>
    /\ stop_outcome = "returned"
    /\ tasks[1].pc = "returned"
    /\ tasks[1].run.pc = "cancelled"
    /\ delivery.pc = "cancelled"
    /\ delivery.fn = "send_gif_message"
    /\ delivery.sleeps = << 7 >>

=============================================================================
